---- MODULE Spec2Model ----
(***************************************************************************)
(* Passport photo maker: the crop-rectangle calculator, the face-box       *)
(* resolution, the 4x6 sheet layout (utils.py) and the request pipeline    *)
(* that wires them to the external services (app.py).                      *)
(*                                                                         *)
(* Python floats are IEEE binary64.  Every float expression of the source  *)
(* is modelled by the exact rational value it approximates, computed in    *)
(* integers, plus the finite tables below of the arguments at which the    *)
(* binary64 evaluation lands on the other side of an integer than the      *)
(* exact value, so that int() truncates to a different integer.            *)
(***************************************************************************)
EXTENDS Integers, Sequences, FiniteSets, TLC

VARIABLES pc, services, imgW, imgH, detection, face_box, params, scale_adj,
          eye_adj, calc, crop_rect, out, sheet, error, shown

vars == <<pc, services, imgW, imgH, detection, face_box, params, scale_adj,
          eye_adj, calc, crop_rect, out, sheet, error, shown>>

(***************************************************************************)
(* Bounds of the model.                                                    *)
(***************************************************************************)
NarrowDim == 7
MaxDim == 14
MaxAdj == 120
MaxTiny == 3
Near == 12
MaxQuarter == 5

(***************************************************************************)
(* Arithmetic helpers.                                                     *)
(***************************************************************************)
Max(a, b) == IF a >= b THEN a ELSE b
Min(a, b) == IF a <= b THEN a ELSE b
Abs(a) == IF a >= 0 THEN a ELSE -a

\* int(a / b) for b > 0: Python's int() truncates toward zero.
TruncDiv(a, b) == IF a >= 0 THEN a \div b ELSE -((-a) \div b)

(***************************************************************************)
(* app.py: the preset table and the slider range.                          *)
(* eyeRatio is kept in units of 1/EyeScale (0.60 is 6000).                 *)
(***************************************************************************)
EyeScale == 10000
UiAdj == 10

PRESETS ==
  { [outW |-> 600, outH |-> 600, targetHead |-> 360, eyeRatio |-> 6000],
    [outW |-> 413, outH |-> 531, targetHead |-> 330, eyeRatio |-> 6200],
    [outW |-> 413, outH |-> 531, targetHead |-> 320, eyeRatio |-> 6100] }

US_PRESET == [outW |-> 600, outH |-> 600, targetHead |-> 360, eyeRatio |-> 6000]

(***************************************************************************)
(* binary64 tables.                                                        *)
(***************************************************************************)
\* heights n <= 2000 with int(n * 0.35) one below floor(35 n / 100)
Mul035RoundsBelow ==
  {180, 340, 360, 660, 680, 700, 720, 1300, 1320, 1340, 1360, 1380, 1400,
   1420, 1440, 1460}

\* <<targetHead, scale_adj>>, |scale_adj| <= 130, where
\* int(targetHead * (1 + scale_adj / 100.0)) is one below / one above the
\* truncation of the exact product
TargetHeadRoundsBelow ==
  { <<360, -90>>, <<360, -80>>, <<360, -65>>, <<360, -55>>, <<360, -30>>,
    <<360, 15>>, <<360, 40>>, <<360, 105>>, <<360, 130>>,
    <<330, -90>>, <<330, -80>>, <<330, -30>>, <<330, 40>>, <<330, 130>>,
    <<320, -90>>, <<320, -80>> }

TargetHeadRoundsAbove ==
  { <<360, -120>>, <<360, -115>>, <<330, -120>>, <<320, -120>>,
    <<320, -115>> }

\* <<outH, eyeRatio, cropH>>, cropH <= 130, where the binary64 product
\* eyeRatio * outH * (cropH / outH) is an integer in exact arithmetic but is
\* evaluated just below / just above it (eyeY < 30)
EyeProductRoundsBelow ==
  { <<531, 6100, 100>>, <<531, 6200, 50>>, <<531, 6200, 100>>,
    <<531, 6320, 125>>, <<531, 7500, 20>>, <<531, 7500, 40>>,
    <<531, 7500, 80>>, <<600, 6000, 105>> }

EyeProductRoundsAbove == { <<531, 4500, 60>> }

(***************************************************************************)
(* utils.py: compute_crop_rect.                                            *)
(* A face box is a record [x, y, w, h]; face_box is the set holding it,    *)
(* or the empty set for None.                                              *)
(***************************************************************************)
NoCalc == [fb |-> [x |-> 0, y |-> 0, w |-> 0, h |-> 0], headTop |-> 0,
           chin |-> 0, headHeight |-> 0, targetHead |-> 0, cropH |-> 0,
           cropW |-> 0, eyeY |-> 0, eyeRatio |-> 0, cropY |-> 0, cropX |-> 0]

NoRect == [x |-> 0, y |-> 0, w |-> 0, h |-> 0]

\* fw, fh = int(imgW*0.30), int(imgH*0.35); x = int((imgW-fw)/2); y = int(imgH*0.2)
FallbackBox(W, H) ==
  LET fw == (30 * W) \div 100
      fh == (35 * H) \div 100 - (IF H \in Mul035RoundsBelow THEN 1 ELSE 0)
  IN  [x |-> (W - fw) \div 2, y |-> (20 * H) \div 100, w |-> fw, h |-> fh]

\* if face_box: fb = face_box else: the centered fallback
ResolveFb(box, W, H) ==
  IF box # {} THEN CHOOSE b \in box : TRUE ELSE FallbackBox(W, H)

\* variant: the margin is subtracted in floating point and truncated once
HeadTop_TruncateOnce(fb) == Max(0, TruncDiv(100 * fb.y - 15 * fb.h, 100))

HeadTop(fb) == Max(0, fb.y - TruncDiv(15 * fb.h, 100))

Chin(fb, H) == Min(H, fb.y + fb.h + TruncDiv(10 * fb.h, 100))

HeadHeight(fb, H) == Max(1, Chin(fb, H) - HeadTop(fb))

\* variant: the sign of the head-size adjustment is flipped
TargetHead_SignFlipped(p, sa) ==
  Max(100, TruncDiv(p.targetHead * (100 - sa), 100))

\* max(100, int(params["targetHead"] * (1 + scale_adj / 100.0)))
TargetHead(p, sa) ==
  LET exact == TruncDiv(p.targetHead * (100 + sa), 100)
      fl == exact
            - (IF <<p.targetHead, sa>> \in TargetHeadRoundsBelow THEN 1 ELSE 0)
            + (IF <<p.targetHead, sa>> \in TargetHeadRoundsAbove THEN 1 ELSE 0)
  IN  Max(100, fl)

\* int((headHeight * outH) / targetHead)
CropH(p, hh, th) == (hh * p.outH) \div th

\* int(cropH * outAspect), outAspect = outW / outH
CropW(p, ch) == (ch * p.outW) \div p.outH

EyeY(ht, hh) == ht + (40 * hh) \div 100

\* variant: the nudged eye ratio is not clamped
EyeRatio_Unclamped(p, ea) == p.eyeRatio + 15 * ea

\* variant: the eye-line nudge is ignored
EyeRatio_NoNudge(p, ea) == Min(7500, Max(4500, p.eyeRatio))

\* min(0.75, max(0.45, params["eyeRatio"] + (eye_adj / 100.0) * 0.15))
EyeRatio(p, ea) == Min(7500, Max(4500, p.eyeRatio + 15 * ea))

\* int(eyeY - eyeRatio * outH * (cropH / outH))
CropY(p, ey, er, ch) ==
  LET m == EyeScale * ey - er * ch
  IN  TruncDiv(m, EyeScale)
      + (IF m < 0 /\ <<p.outH, er, ch>> \in EyeProductRoundsBelow THEN 1 ELSE 0)
      - (IF m > 0 /\ <<p.outH, er, ch>> \in EyeProductRoundsAbove THEN 1 ELSE 0)

\* int((fb["x"] + fb["w"] // 2) - cropW // 2)
CropX(fb, cw) == (fb.x + fb.w \div 2) - cw \div 2

\* the locals of compute_crop_rect before the four clamps
Locals(W, H, box, p, sa, ea) ==
  LET fb == ResolveFb(box, W, H)
      ht == HeadTop(fb)
      hh == HeadHeight(fb, H)
      th == TargetHead(p, sa)
      ch == CropH(p, hh, th)
      cw == CropW(p, ch)
      ey == EyeY(ht, hh)
      er == EyeRatio(p, ea)
  IN  [fb |-> fb, headTop |-> ht, chin |-> Chin(fb, H), headHeight |-> hh,
       targetHead |-> th, cropH |-> ch, cropW |-> cw, eyeY |-> ey,
       eyeRatio |-> er, cropY |-> CropY(p, ey, er, ch),
       cropX |-> CropX(fb, cw)]

\* variant: the size is clamped to the canvas without the 10px floor
ClampRect_NoFloor(W, H, l) ==
  [x |-> Max(0, Min(l.cropX, W - l.cropW)),
   y |-> Max(0, Min(l.cropY, H - l.cropH)),
   w |-> Min(l.cropW, W),
   h |-> Min(l.cropH, H)]

\* cropX, cropY are clamped with the unclamped size, then cropW, cropH
ClampRect(W, H, l) ==
  [x |-> Max(0, Min(l.cropX, W - l.cropW)),
   y |-> Max(0, Min(l.cropY, H - l.cropH)),
   w |-> Max(10, Min(l.cropW, W)),
   h |-> Max(10, Min(l.cropH, H))]

compute_crop_rect(W, H, box, p, sa, ea) ==
  ClampRect(W, H, Locals(W, H, box, p, sa, ea))

(***************************************************************************)
(* utils.py: detect_face_box.  The detector's relative bounding box is     *)
(* kept in quarters of the image side, so d.xmin * w is exact in binary64. *)
(***************************************************************************)
Quarter == 4

NoDetection == [xmin |-> 0, ymin |-> 0, width |-> 0, height |-> 0]

\* x = max(0, int(d.xmin * w)); y likewise; ww = int(d.width * w); hh likewise
DetectedBox(d, W, H) ==
  [x |-> Max(0, TruncDiv(d.xmin * W, Quarter)),
   y |-> Max(0, TruncDiv(d.ymin * H, Quarter)),
   w |-> TruncDiv(d.width * W, Quarter),
   h |-> TruncDiv(d.height * H, Quarter)]

(***************************************************************************)
(* utils.py: layout_on_4x6.                                                *)
(***************************************************************************)
SHEET_W == 1800
SHEET_H == 1200
COLS == 3
ROWS == 2
PAD_X == 50
PAD_Y == 50
GAP_X == 40
GAP_Y == 40

cell_w == (SHEET_W - 2 * PAD_X - (COLS - 1) * GAP_X) \div COLS
cell_h == (SHEET_H - 2 * PAD_Y - (ROWS - 1) * GAP_Y) \div ROWS

\* <<bw, bh>>, both <= 700, where int(bw * scale) is one below the floor of
\* the exact product (scale = cell_h / bh)
LayoutWRoundsBelow == { <<603, 670>> }

\* scale = min(cell_w / bw, cell_h / bh, 1.0); int(bw * scale), int(bh * scale)
FittedSize(bw, bh) ==
  IF cell_w >= bw /\ cell_h >= bh
  THEN [w |-> bw, h |-> bh]
  ELSE IF cell_w * bh <= cell_h * bw
       THEN [w |-> (bw * cell_w) \div bw, h |-> (bh * cell_w) \div bw]
       ELSE [w |-> (bw * cell_h) \div bh
                   - (IF <<bw, bh>> \in LayoutWRoundsBelow THEN 1 ELSE 0),
             h |-> (bh * cell_h) \div bh]

\* the paste of the copy at row r, column c
Placement(r, c, f) ==
  LET slot_x == PAD_X + c * (cell_w + GAP_X)
      slot_y == PAD_Y + r * (cell_h + GAP_Y)
  IN  [r |-> r, c |-> c, slot_x |-> slot_x, slot_y |-> slot_y,
       px |-> slot_x + (cell_w - f.w) \div 2,
       py |-> slot_y + (cell_h - f.h) \div 2,
       w |-> f.w, h |-> f.h]

NoSheet == [w |-> 0, h |-> 0, placed |-> {}]

\* fitted = base.resize((new_w, new_h), Image.LANCZOS): Pillow's resize
\* raises ValueError("height and width must be > 0") for an empty size
ResizeRaises(f) == f.w < 1 \/ f.h < 1

layout_on_4x6(photo) ==
  LET f == FittedSize(photo.w, photo.h)
  IN  [w |-> SHEET_W, h |-> SHEET_H,
       placed |-> { Placement(r, c, f) : r \in 0 .. ROWS - 1, c \in 0 .. COLS - 1 }]

(***************************************************************************)
(* State machine.                                                          *)
(***************************************************************************)
NoPhoto == [w |-> 0, h |-> 0]

NoServices == [seg |-> "pending", det |-> "pending", enh |-> "pending"]

UiAdjs == (-UiAdj) .. UiAdj

\* all face boxes with w > 0, h > 0 inside a W x H canvas
Boxes(W, H) ==
  { [x |-> x, y |-> y, w |-> w, h |-> h] :
      x \in 0 .. W - 1, y \in 0 .. H - 1, w \in 1 .. W, h \in 1 .. H }

ValidBox(b, W, H) ==
  /\ b.w > 0 /\ b.h > 0 /\ b.x >= 0 /\ b.y >= 0
  /\ b.x + b.w <= W /\ b.y + b.h <= H

ScenarioBox == [x |-> 500, y |-> 300, w |-> 200, h |-> 250]

\* the inputs of the concrete scenario, adjustments left open
InitScenario(adjs) ==
  /\ imgW = 1200 /\ imgH = 1600
  /\ face_box = {ScenarioBox}
  /\ params = US_PRESET
  /\ scale_adj \in adjs /\ eye_adj \in adjs

InitRest(at) ==
  /\ pc = at
  /\ services = NoServices
  /\ detection = NoDetection
  /\ calc = NoCalc
  /\ crop_rect = NoRect
  /\ out = NoPhoto
  /\ sheet = NoSheet
  /\ error = ""
  /\ shown = {}

\* compute_crop_rect called on every valid input over small canvases
GeomAdjs == {-UiAdj, 0, UiAdj}

InitCrop ==
  /\ InitRest("crop")
  /\ \/ /\ imgW \in {NarrowDim, MaxDim} /\ imgH \in {NarrowDim, MaxDim}
        /\ face_box \in {{}} \cup { {b} : b \in { bb \in Boxes(imgW, imgH) : ValidBox(bb, imgW, imgH) } }
        /\ params \in PRESETS
        /\ scale_adj \in GeomAdjs /\ eye_adj \in GeomAdjs
     \/ InitScenario(GeomAdjs)

\* 4) detect face & compute crop box from preset: the call of compute_crop_rect
ComputeCropRect ==
  /\ pc = "crop"
  /\ calc' = Locals(imgW, imgH, face_box, params, scale_adj, eye_adj)
  /\ crop_rect' = compute_crop_rect(imgW, imgH, face_box, params, scale_adj, eye_adj)
  /\ pc' = "cropped"
  /\ UNCHANGED <<services, imgW, imgH, detection, face_box, params, scale_adj,
                 eye_adj, out, sheet, error, shown>>

NextCrop == ComputeCropRect

SpecCrop == InitCrop /\ [][NextCrop]_vars

\* compute_crop_rect called with every pair of adjustments, the slider range
\* and two values far outside it
Adjs == UiAdjs \cup {-MaxAdj, MaxAdj}

InitAdj ==
  /\ InitRest("crop")
  /\ \/ /\ imgW = MaxDim /\ imgH = MaxDim
        /\ face_box \in {{}} \cup
             { {[x |-> MaxDim \div 4, y |-> y, w |-> MaxDim \div 2, h |-> h]} :
                 y \in 0 .. MaxDim - 1, h \in 1 .. MaxDim }
        /\ \A b \in face_box : ValidBox(b, imgW, imgH)
        /\ params \in PRESETS
        /\ scale_adj \in Adjs /\ eye_adj \in Adjs
     \/ InitScenario(Adjs)

SpecAdj == InitAdj /\ [][NextCrop]_vars

(***************************************************************************)
(* app.py: one request, process(pil) and the page below it.                *)
(***************************************************************************)
Raise(msg) ==
  /\ error' = msg
  /\ pc' = "raised"

\* 1) rgba = remove_background_rgba(pil_img): RuntimeError when rembg or
\*    onnxruntime cannot be imported
RemoveBackground ==
  /\ pc = "segment"
  /\ \E o \in {"ok", "unavailable"} :
       /\ services' = [services EXCEPT !.seg = o]
       /\ IF o = "unavailable"
          THEN Raise("rembg is not installed. Run: pip install rembg")
          ELSE /\ pc' = "detect"
               /\ UNCHANGED error
  /\ UNCHANGED <<imgW, imgH, detection, face_box, params, scale_adj, eye_adj,
                 calc, crop_rect, out, sheet, shown>>

\* face_box = detect_face_box(np.array(pil_img)): None when mediapipe cannot
\* be imported or no face is found; an exception of the detector propagates
DetectFaceBox ==
  /\ pc = "detect"
  /\ \/ /\ \E o \in {"import_fail", "no_face"} :
             services' = [services EXCEPT !.det = o]
        /\ face_box' = {}
        /\ pc' = "crop"
        /\ UNCHANGED <<detection, error>>
     \/ /\ services' = [services EXCEPT !.det = "raises"]
        /\ Raise("face detector failed")
        /\ UNCHANGED <<detection, face_box>>
     \/ /\ services' = [services EXCEPT !.det = "face"]
        /\ \E xm \in -1 .. MaxQuarter, ym \in -1 .. MaxQuarter,
              wd \in 0 .. MaxQuarter, hg \in 0 .. MaxQuarter :
             LET d == [xmin |-> xm, ymin |-> ym, width |-> wd, height |-> hg]
             IN  /\ detection' = d
                 /\ face_box' = {DetectedBox(d, imgW, imgH)}
        /\ pc' = "crop"
        /\ UNCHANGED error
  /\ UNCHANGED <<imgW, imgH, params, scale_adj, eye_adj, calc, crop_rect, out,
                 sheet, shown>>

\* 5) crop + resize to outW x outH, 6) enhance_rgb_quality; return
EnhanceRgbQuality ==
  /\ pc = "cropped"
  /\ \E o \in {"ok", "raises"} :
       /\ services' = [services EXCEPT !.enh = o]
       /\ IF o = "raises"
          THEN /\ Raise("enhancement filter failed")
               /\ UNCHANGED out
          ELSE /\ out' = [w |-> params.outW, h |-> params.outH]
               /\ pc' = "processed"
               /\ UNCHANGED error
  /\ UNCHANGED <<imgW, imgH, detection, face_box, params, scale_adj, eye_adj,
                 calc, crop_rect, sheet, shown>>

\* variant: the exception is swallowed, the page stops without a message
ReportError_Silent ==
  /\ pc = "raised"
  /\ pc' = "stopped"
  /\ UNCHANGED <<services, imgW, imgH, detection, face_box, params, scale_adj,
                 eye_adj, calc, crop_rect, out, sheet, error, shown>>

\* except Exception as e: st.error(str(e)); st.stop()
ReportError ==
  /\ pc = "raised"
  /\ shown' = shown \cup {"error"}
  /\ pc' = "stopped"
  /\ UNCHANGED <<services, imgW, imgH, detection, face_box, params, scale_adj,
                 eye_adj, calc, crop_rect, out, sheet, error>>

\* st.image(rgba), st.image(guided), st.image(out), the download button
ShowResults ==
  /\ pc = "processed"
  /\ shown' = shown \cup {"rgba", "guided", "final", "download"}
  /\ pc' = "shown"
  /\ UNCHANGED <<services, imgW, imgH, detection, face_box, params, scale_adj,
                 eye_adj, calc, crop_rect, out, sheet, error>>

\* if st.button("Create 4x6 sheet"): sheet = layout_on_4x6([out]); the call
\* is outside the try block, an exception of it ends the run of the page
CreateSheet ==
  /\ pc = "shown"
  /\ IF ResizeRaises(FittedSize(out.w, out.h))
     THEN /\ error' = "height and width must be > 0"
          /\ pc' = "sheet_failed"
          /\ UNCHANGED <<sheet, shown>>
     ELSE /\ sheet' = layout_on_4x6(out)
          /\ shown' = shown \cup {"sheet", "sheet_download"}
          /\ pc' = "sheet_done"
          /\ UNCHANGED error
  /\ UNCHANGED <<services, imgW, imgH, detection, face_box, params, scale_adj,
                 eye_adj, calc, crop_rect, out>>

InitPipeline ==
  /\ InitRest("segment")
  /\ imgW \in {MaxTiny, MaxDim} /\ imgH \in {MaxTiny, MaxDim}
  /\ face_box = {}
  /\ params \in PRESETS
  /\ scale_adj = 0 /\ eye_adj = 0

NextPipeline ==
  \/ RemoveBackground
  \/ DetectFaceBox
  \/ ComputeCropRect
  \/ EnhanceRgbQuality
  \/ ReportError
  \/ ShowResults
  \/ CreateSheet

SpecPipeline == InitPipeline /\ [][NextPipeline]_vars

(***************************************************************************)
(* layout_on_4x6 called on photos of every size of PhotoSides.             *)
(***************************************************************************)
PhotoSides ==
  (1 .. MaxTiny) \cup ((cell_h - Near) .. (cell_w + Near))
    \cup { p.outW : p \in PRESETS } \cup { p.outH : p \in PRESETS }

InitSheet ==
  /\ pc = "shown"
  /\ services = [seg |-> "ok", det |-> "no_face", enh |-> "ok"]
  /\ detection = NoDetection
  /\ imgW = MaxDim /\ imgH = MaxDim
  /\ face_box = {}
  /\ params = US_PRESET
  /\ scale_adj = 0 /\ eye_adj = 0
  /\ calc = Locals(imgW, imgH, face_box, params, scale_adj, eye_adj)
  /\ crop_rect = compute_crop_rect(imgW, imgH, face_box, params, scale_adj, eye_adj)
  /\ out \in { [w |-> bw, h |-> bh] : bw \in PhotoSides, bh \in PhotoSides }
  /\ sheet = NoSheet
  /\ error = ""
  /\ shown = {"rgba", "guided", "final", "download"}

NextSheet == CreateSheet

SpecSheet == InitSheet /\ [][NextSheet]_vars

(***************************************************************************)
(* Properties.                                                             *)
(***************************************************************************)
Inside(r, W, H) ==
  /\ 0 <= r.x /\ 0 <= r.y
  /\ r.x + r.w <= W /\ r.y + r.h <= H

\* none of the four clamps of compute_crop_rect changes a value
NoClamp ==
  /\ 0 <= calc.cropX /\ calc.cropX <= imgW - calc.cropW
  /\ 0 <= calc.cropY /\ calc.cropY <= imgH - calc.cropH
  /\ 10 <= calc.cropW /\ calc.cropW <= imgW
  /\ 10 <= calc.cropH /\ calc.cropH <= imgH

IsScenario ==
  /\ imgW = 1200 /\ imgH = 1600
  /\ face_box = {[x |-> 500, y |-> 300, w |-> 200, h |-> 250]}
  /\ params = [outW |-> 600, outH |-> 600, targetHead |-> 360, eyeRatio |-> 6000]

\* C1: for every valid input the returned rectangle lies inside the canvas:
\* 0 <= x, 0 <= y, x + w <= imgW, y + h <= imgH.
C1_CropInsideCanvas ==
  pc = "cropped" => Inside(crop_rect, imgW, imgH)

\* C2: the returned rectangle keeps the preset's aspect ratio to within one
\* pixel, |w - h * outW / outH| <= 1, also after the final clamps.
C2_AspectWithinOnePixel ==
  pc = "cropped" =>
    Abs(crop_rect.w * params.outH - crop_rect.h * params.outW) <= params.outH

\* the sheet is 1800 x 1200 and holds 6 copies, each inside its own cell of
\* the 3 x 2 grid (padding 50, gap 40), each of the fitted size, which is no
\* larger than the photo, and the copies are pairwise disjoint
SheetGeometry ==
  /\ sheet.w = 1800 /\ sheet.h = 1200
  /\ Cardinality(sheet.placed) = 6
  /\ \A a \in sheet.placed :
       /\ a.r \in 0 .. 1 /\ a.c \in 0 .. 2
       /\ a.slot_x = 50 + a.c * (540 + 40)
       /\ a.slot_y = 50 + a.r * (530 + 40)
       /\ a.slot_x + 540 <= 1800 - 50 /\ a.slot_y + 530 <= 1200 - 50
       /\ a.slot_x <= a.px /\ a.px + a.w <= a.slot_x + 540
       /\ a.slot_y <= a.py /\ a.py + a.h <= a.slot_y + 530
       /\ a.w <= out.w /\ a.h <= out.h
  /\ \A a, b \in sheet.placed :
       /\ a.w = b.w /\ a.h = b.h
       /\ (a # b) =>
            \/ a.px + a.w <= b.px \/ b.px + b.w <= a.px
            \/ a.py + a.h <= b.py \/ b.py + b.h <= a.py

\* C3: for every photo of positive size layout_on_4x6 produces an
\* 1800 x 1200 sheet with 6 pairwise disjoint copies, each inside its own
\* cell and none enlarged.
C3_SheetForEveryPhoto ==
  (pc \in {"sheet_done", "sheet_failed"} /\ out.w > 0 /\ out.h > 0) =>
    (pc = "sheet_done" /\ SheetGeometry)

\* the part of C3 that holds: a sheet that is produced has the geometry of C3
SheetGeometryWhenProduced ==
  pc = "sheet_done" => (SheetGeometry /\ \A a \in sheet.placed : a.w >= 1 /\ a.h >= 1)

\* C4 as stated: the scenario goes through headTop=262, chin=575,
\* headHeight=313, cropH=cropW=521, eyeY=387, cropY=75, cropX=340 and
\* returns {x:340, y:75, w:521, h:521}.
C4_ScenarioAsStated ==
  (pc = "cropped" /\ IsScenario /\ scale_adj = 0 /\ eye_adj = 0) =>
    /\ calc.headTop = 262 /\ calc.chin = 575 /\ calc.headHeight = 313
    /\ calc.cropH = 521 /\ calc.cropW = 521 /\ calc.eyeY = 387
    /\ calc.cropY = 75 /\ calc.cropX = 340
    /\ crop_rect = [x |-> 340, y |-> 75, w |-> 521, h |-> 521]

\* C4 amended: the scenario goes through headTop=263, chin=575,
\* headHeight=312, cropH=cropW=520, eyeY=387, cropY=75, cropX=340, no clamp
\* triggers, and it returns {x:340, y:75, w:520, h:520}.
C4_ScenarioValues ==
  (pc = "cropped" /\ IsScenario /\ scale_adj = 0 /\ eye_adj = 0) =>
    /\ calc.headTop = 263 /\ calc.chin = 575 /\ calc.headHeight = 312
    /\ calc.cropH = 520 /\ calc.cropW = 520 /\ calc.eyeY = 387
    /\ calc.cropY = 75 /\ calc.cropX = 340
    /\ NoClamp
    /\ crop_rect = [x |-> 340, y |-> 75, w |-> 520, h |-> 520]

C4_Witness ==
  /\ pc = "cropped" /\ IsScenario /\ scale_adj = 0 /\ eye_adj = 0
  /\ crop_rect.w = 520

\* C5: the face box the crop calculation works from has w > 0, h > 0 and
\* lies within the canvas, whether detected or the fallback.
C5_FaceBoxValid ==
  pc = "cropped" => ValidBox(calc.fb, imgW, imgH)

ClampAdj(a) == Max(-10, Min(10, a))

\* C6 as stated: for any integer adjustments the result equals the result
\* for the adjustments clamped to [-10, 10].
C6_AdjustmentsClamped ==
  pc = "cropped" =>
    crop_rect = compute_crop_rect(imgW, imgH, face_box, params,
                                  ClampAdj(scale_adj), ClampAdj(eye_adj))

\* C6 amended: compute_crop_rect does not clamp the adjustments; for any
\* integer adjustments, also outside [-10, 10], it clamps the values derived
\* from them: the effective targetHead is at least 100 and the effective
\* eyeRatio lies in [0.45, 0.75].
C6_DerivedValuesClamped ==
  pc = "cropped" =>
    /\ calc.targetHead >= 100
    /\ 4500 <= calc.eyeRatio /\ calc.eyeRatio <= 7500

C6_Witness ==
  /\ pc = "cropped"
  /\ scale_adj < -10 /\ eye_adj > 10
  /\ calc.targetHead = 100 /\ calc.eyeRatio = 7500
  /\ crop_rect # compute_crop_rect(imgW, imgH, face_box, params, -10, 10)

\* C7: for scale_adj a <= b in [-10, 10], all other inputs equal, the w and
\* h returned for b are no larger than those for a; in the scenario
\* scale_adj = 10 returns a strictly smaller w and h than scale_adj = 0.
C7_CropShrinksWithHeadScale ==
  (pc = "cropped" /\ scale_adj \in -10 .. 10 /\ eye_adj \in -10 .. 10) =>
    /\ \A b \in -10 .. 10 :
         LET rb == compute_crop_rect(imgW, imgH, face_box, params, b, eye_adj)
         IN  /\ (scale_adj <= b) => (rb.w <= crop_rect.w /\ rb.h <= crop_rect.h)
             /\ (b <= scale_adj) => (crop_rect.w <= rb.w /\ crop_rect.h <= rb.h)
    /\ (IsScenario /\ scale_adj = 10 /\ eye_adj = 0) =>
         LET r0 == compute_crop_rect(imgW, imgH, face_box, params, 0, 0)
         IN  crop_rect.w < r0.w /\ crop_rect.h < r0.h

C7_Witness ==
  /\ pc = "cropped" /\ IsScenario /\ scale_adj = 10 /\ eye_adj = 0
  /\ crop_rect.w = 472 /\ crop_rect.h = 472

Fatal ==
  /\ pc \in {"raised", "stopped"}
  /\ error # ""
  /\ out = NoPhoto /\ sheet = NoSheet
  /\ shown \cap {"guided", "final", "download", "sheet", "sheet_download"} = {}
  /\ (pc = "stopped") => ("error" \in shown)

\* C8 as stated: when the segmentation, the face detector or the enhancement
\* filter cannot run, the request ends in an error surfaced to the caller and
\* no crop preview, final photo, sheet or download is produced.
C8_UnavailableIsFatal ==
  (\/ services.seg = "unavailable"
   \/ services.det \in {"import_fail", "raises"}
   \/ services.enh = "raises") => Fatal

\* C8 amended: when the segmentation or the enhancement filter cannot run, or
\* the detector raises while it runs, the request ends in an error surfaced
\* to the caller and nothing is produced; a detector that cannot be imported
\* is non-fatal, like a detector that found no face: the crop is computed
\* from the fallback box.
C8_FatalExceptMissingDetector ==
  /\ (\/ services.seg = "unavailable"
      \/ services.det = "raises"
      \/ services.enh = "raises") => Fatal
  /\ (services.det \in {"import_fail", "no_face"} /\ pc = "cropped") =>
       /\ error = ""
       /\ calc.fb = FallbackBox(imgW, imgH)
       /\ calc.fb.w = (30 * imgW) \div 100

C8_Witness ==
  /\ pc = "stopped"
  /\ services.det = "import_fail" /\ services.enh = "raises"
  /\ "error" \in shown

\* C9: there are valid inputs whose unclamped cropW exceeds imgW (cropH
\* exceeds imgH) and whose returned rectangle ends outside the canvas.  They
\* are exactly the inputs with imgW < 10 (imgH < 10): an oversize crop is
\* returned as x = 0, w = max(10, imgW).
C9_OversizeCropOutsideCanvas ==
  pc = "cropped" =>
    /\ (calc.cropW > imgW) =>
         /\ crop_rect.x = 0
         /\ (crop_rect.x + crop_rect.w > imgW) <=> (imgW < 10)
    /\ (calc.cropH > imgH) =>
         /\ crop_rect.y = 0
         /\ (crop_rect.y + crop_rect.h > imgH) <=> (imgH < 10)

C9_Witness ==
  /\ pc = "cropped"
  /\ face_box # {} /\ \A b \in face_box : ValidBox(b, imgW, imgH)
  /\ calc.cropW > imgW
  /\ crop_rect.x + crop_rect.w > imgW

\* C10: when no clamp changes a value, the assumed eye line eyeY sits at the
\* effective eye ratio of the returned rectangle to within one pixel:
\* |eyeY - (y + eyeRatio * h)| <= 1, eyeRatio = preset.eyeRatio +
\* eye_adj * 0.0015 clamped to [0.45, 0.75].
C10_EyeLineAtEyeRatio ==
  (pc = "cropped" /\ NoClamp) =>
    LET er == Max(4500, Min(7500, params.eyeRatio + 15 * eye_adj))
    IN  Abs(10000 * calc.eyeY - (10000 * crop_rect.y + er * crop_rect.h))
          <= 10000

C10_Witness ==
  /\ pc = "cropped" /\ NoClamp
  /\ eye_adj = 7 /\ crop_rect.y > 0
  /\ crop_rect.h < imgH
====
